---- MODULE Spec2Model ----
(***************************************************************************)
(* Pad-i: the chat core (internal/llm Service, internal/api Handler) over  *)
(* the SQLite store (internal/db).                                         *)
(*                                                                         *)
(* Text is a sequence of character tokens.  The characters with a meaning  *)
(* for the code (braces, brackets, colon, comma, double quote, backslash,  *)
(* space) are one token each; a run of letters or digits that no operation *)
(* of the code splits is one word token.                                   *)
(*                                                                         *)
(* One POST /api/message is followed from the request to its outcome,      *)
(* statement by statement, against a database that already holds the rows  *)
(* of earlier turns, while other requests create and delete conversations. *)
(* internal/db/sqlite.go holds two revisions of the store, which differ in *)
(* the upkeep of the full-text index; rev says which one is built.         *)
(*                                                                         *)
(* Spec is that turn.  StoreSpec is the store alone, one Database call     *)
(* after another, each of which may fail.  TimedSpec is the turn up to the *)
(* main completion call with the time every call takes.                    *)
(***************************************************************************)
EXTENDS Integers, Sequences, FiniteSets, TLC

\* ------------------------------------------------------------------ bounds
MaxConvs == 2
MaxMessages == 3
MaxKnowledge == 2

\* --------------------------------------------------------------- constants
\* relevance > 0.3, in hundredths
Threshold == 30
\* GetConversationHistory(msg.ConvID, 10)
HistoryLimit == 10

\* -------------------------------------------------------------- characters
DQ == "QUOTE"
BS == "BACKSLASH"
SP == " "
NL == "NEWLINE"
LBRACE == "{"
RBRACE == "}"
LBRACK == "["
RBRACK == "]"
COLON == ":"
COMMA == ","

NoText == << >>

At(s, i) == IF i >= 1 /\ i <= Len(s) THEN s[i] ELSE "EOF"

\* strings.HasPrefix / strings.HasSuffix with a one-byte argument
HasPrefix(s, c) == Len(s) >= 1 /\ s[1] = c
HasSuffix(s, c) == Len(s) >= 1 /\ s[Len(s)] = c

IsSpace(c) == c \in {SP, NL}

RECURSIVE TrimLeft(_)
TrimLeft(s) == IF Len(s) >= 1 /\ IsSpace(s[1]) THEN TrimLeft(Tail(s)) ELSE s

RECURSIVE TrimRight(_)
TrimRight(s) ==
    IF Len(s) >= 1 /\ IsSpace(s[Len(s)]) THEN TrimRight(SubSeq(s, 1, Len(s) - 1)) ELSE s

\* strings.TrimSpace
TrimSpace(s) == TrimRight(TrimLeft(s))

\* ------------------------------------------------------------------- JSON
\* encoding/json's scanner and decoder on the token alphabet: objects,
\* arrays, strings with the escapes \" and \\, null, and number literals.
NumberWords == {"5", "0.9"}

JNull == [k |-> "null"]
JString(t) == [k |-> "string", s |-> t]
JNumber(w) == [k |-> "number", n |-> w]
JObject(m) == [k |-> "object", m |-> m]
JArray(e) == [k |-> "array", e |-> e]
JFail == [ok |-> FALSE]
JOk(v, n) == [ok |-> TRUE, val |-> v, next |-> n]

RECURSIVE SkipWS(_, _)
SkipWS(s, i) == IF IsSpace(At(s, i)) THEN SkipWS(s, i + 1) ELSE i

\* the body of a string literal from position j on, up to the closing quote;
\* a raw line break inside a string literal is a syntax error
RECURSIVE ScanString(_, _, _)
ScanString(s, j, acc) ==
    IF j > Len(s) \/ s[j] = NL THEN JFail
    ELSE IF s[j] = DQ THEN JOk(JString(acc), j + 1)
    ELSE IF s[j] = BS
         THEN IF At(s, j + 1) \in {DQ, BS}
              THEN ScanString(s, j + 2, Append(acc, s[j + 1]))
              ELSE JFail
    ELSE ScanString(s, j + 1, Append(acc, s[j]))

RECURSIVE ParseValue(_, _)
RECURSIVE ParseMembers(_, _, _)
RECURSIVE ParseElements(_, _, _)

ParseValue(s, i) ==
    LET c == At(s, i) IN
    IF c = DQ THEN ScanString(s, i + 1, NoText)
    ELSE IF c = "null" THEN JOk(JNull, i + 1)
    ELSE IF c \in NumberWords THEN JOk(JNumber(c), i + 1)
    ELSE IF c = LBRACE
         THEN LET j == SkipWS(s, i + 1) IN
              IF At(s, j) = RBRACE THEN JOk(JObject(<< >>), j + 1)
              ELSE ParseMembers(s, j, << >>)
    ELSE IF c = LBRACK
         THEN LET j == SkipWS(s, i + 1) IN
              IF At(s, j) = RBRACK THEN JOk(JArray(<< >>), j + 1)
              ELSE ParseElements(s, j, << >>)
    ELSE JFail

ParseMembers(s, j, acc) ==
    IF At(s, j) # DQ THEN JFail
    ELSE LET key == ScanString(s, j + 1, NoText) IN
         IF ~key.ok THEN JFail
         ELSE LET c == SkipWS(s, key.next) IN
              IF At(s, c) # COLON THEN JFail
              ELSE LET v == ParseValue(s, SkipWS(s, c + 1)) IN
                   IF ~v.ok THEN JFail
                   ELSE LET e == SkipWS(s, v.next)
                            m == Append(acc, [key |-> key.val.s, val |-> v.val])
                        IN IF At(s, e) = COMMA THEN ParseMembers(s, SkipWS(s, e + 1), m)
                           ELSE IF At(s, e) = RBRACE THEN JOk(JObject(m), e + 1)
                           ELSE JFail

ParseElements(s, j, acc) ==
    LET v == ParseValue(s, j) IN
    IF ~v.ok THEN JFail
    ELSE LET e == SkipWS(s, v.next)
             a == Append(acc, v.val)
         IN IF At(s, e) = COMMA THEN ParseElements(s, SkipWS(s, e + 1), a)
            ELSE IF At(s, e) = RBRACK THEN JOk(JArray(a), e + 1)
            ELSE JFail

\* one JSON value with nothing but white space around it
ParseJSON(s) ==
    LET v == ParseValue(s, SkipWS(s, 1)) IN
    IF v.ok /\ SkipWS(s, v.next) > Len(s) THEN v ELSE JFail

\* ------------------------------------------------- decoding the completion
\* type LLMResponse, with Go's zero values
ZeroStoreInfo == [UserInput |-> << >>, BotResponse |-> << >>]
ZeroLLMResponse ==
    [Action |-> NoText, Content |-> NoText, StoreInfo |-> ZeroStoreInfo, NewTitle |-> NoText]

\* a JSON value decoded into a Go string: a string sets it, null leaves it,
\* anything else is an UnmarshalTypeError (the decoder goes on and reports it)
DecodeString(v, old) ==
    IF v.k = "string" THEN [err |-> FALSE, val |-> v.s]
    ELSE IF v.k = "null" THEN [err |-> FALSE, val |-> old]
    ELSE [err |-> TRUE, val |-> old]

\* a JSON value decoded into a Go []string
DecodeStringSlice(v, old) ==
    IF v.k = "array"
    THEN [err |-> \E i \in 1..Len(v.e) : DecodeString(v.e[i], NoText).err,
          val |-> [i \in 1..Len(v.e) |-> DecodeString(v.e[i], NoText).val]]
    ELSE IF v.k = "null" THEN [err |-> FALSE, val |-> << >>]
    ELSE [err |-> TRUE, val |-> old]

RECURSIVE DecodeStoreInfoFields(_, _, _)
DecodeStoreInfoFields(m, i, acc) ==
    IF i > Len(m) THEN acc
    ELSE LET key == m[i].key
             v == m[i].val
         IN IF key = <<"user_input">>
            THEN LET d == DecodeStringSlice(v, acc.val.UserInput) IN
                 DecodeStoreInfoFields(m, i + 1,
                     [err |-> acc.err \/ d.err, val |-> [acc.val EXCEPT !.UserInput = d.val]])
            ELSE IF key = <<"bot_response">>
            THEN LET d == DecodeStringSlice(v, acc.val.BotResponse) IN
                 DecodeStoreInfoFields(m, i + 1,
                     [err |-> acc.err \/ d.err, val |-> [acc.val EXCEPT !.BotResponse = d.val]])
            ELSE DecodeStoreInfoFields(m, i + 1, acc)

\* a JSON value decoded into a Go StoreInfo
DecodeStoreInfo(v, old) ==
    IF v.k = "object" THEN DecodeStoreInfoFields(v.m, 1, [err |-> FALSE, val |-> old])
    ELSE IF v.k = "null" THEN [err |-> FALSE, val |-> old]
    ELSE [err |-> TRUE, val |-> old]

RECURSIVE DecodeLLMResponseFields(_, _, _)
DecodeLLMResponseFields(m, i, acc) ==
    IF i > Len(m) THEN acc
    ELSE LET key == m[i].key
             v == m[i].val
         IN IF key = <<"action">>
            THEN LET d == DecodeString(v, acc.val.Action) IN
                 DecodeLLMResponseFields(m, i + 1,
                     [err |-> acc.err \/ d.err, val |-> [acc.val EXCEPT !.Action = d.val]])
            ELSE IF key = <<"content">>
            THEN LET d == DecodeString(v, acc.val.Content) IN
                 DecodeLLMResponseFields(m, i + 1,
                     [err |-> acc.err \/ d.err, val |-> [acc.val EXCEPT !.Content = d.val]])
            ELSE IF key = <<"new_title">>
            THEN LET d == DecodeString(v, acc.val.NewTitle) IN
                 DecodeLLMResponseFields(m, i + 1,
                     [err |-> acc.err \/ d.err, val |-> [acc.val EXCEPT !.NewTitle = d.val]])
            ELSE IF key = <<"store_info">>
            THEN LET d == DecodeStoreInfo(v, acc.val.StoreInfo) IN
                 DecodeLLMResponseFields(m, i + 1,
                     [err |-> acc.err \/ d.err, val |-> [acc.val EXCEPT !.StoreInfo = d.val]])
            ELSE DecodeLLMResponseFields(m, i + 1, acc)

\* json.Unmarshal([]byte(completion), &llmResponse)
UnmarshalLLMResponse(text) ==
    LET p == ParseJSON(text) IN
    IF ~p.ok THEN [err |-> TRUE, val |-> ZeroLLMResponse]
    ELSE IF p.val.k = "null" THEN [err |-> FALSE, val |-> ZeroLLMResponse]
    ELSE IF p.val.k = "object"
         THEN DecodeLLMResponseFields(p.val.m, 1, [err |-> FALSE, val |-> ZeroLLMResponse])
    ELSE [err |-> TRUE, val |-> ZeroLLMResponse]

\* the last member of an object with the given key: Go's map keeps the last
RECURSIVE LastMember(_, _, _)
LastMember(m, key, i) ==
    IF i = 0 THEN JFail
    ELSE IF m[i].key = key THEN JOk(m[i].val, i)
    ELSE LastMember(m, key, i - 1)

\* json.Unmarshal([]byte(llmResponse.Content), &rawJSON) with rawJSON a
\* map[string]interface{}, then rawJSON["content"].(string)
RawJSONContent(text) ==
    LET p == ParseJSON(text) IN
    IF ~p.ok \/ p.val.k # "object" THEN [ok |-> FALSE, val |-> NoText]
    ELSE LET c == LastMember(p.val.m, <<"content">>, Len(p.val.m)) IN
         IF c.ok /\ c.val.k = "string" THEN [ok |-> TRUE, val |-> c.val.s]
         ELSE [ok |-> FALSE, val |-> NoText]

\* a Service.ProcessMessage that leaves a content that looks like JSON alone
UnwrapContentNever(content) == content

\* the unwrap of a content that looks like JSON
UnwrapContent(content) ==
    IF HasPrefix(content, LBRACE) \/ HasPrefix(content, LBRACK)
    THEN LET r == RawJSONContent(content) IN IF r.ok THEN r.val ELSE content
    ELSE content

\* a Service.ProcessMessage without the fallback: what json.Unmarshal left
\* in llmResponse is used although it returned an error
ParseCompletionNoFallback(completion) ==
    LET u == UnmarshalLLMResponse(completion) IN
    [u.val EXCEPT !.Content = UnwrapContent(u.val.Content)]

\* the parse of the completion, with its fallback and the unwrap
ParseCompletion(completion) ==
    LET u == UnmarshalLLMResponse(completion) IN
    IF u.err
    THEN [ZeroLLMResponse EXCEPT !.Action = <<"reply">>, !.Content = completion]
    ELSE [u.val EXCEPT !.Content = UnwrapContent(u.val.Content)]

\* the clean-up of the content: a slice expression s[1:len(s)-1] panics
\* when len(s)-1 < 1
CleanUpPanics(content) ==
    LET t == TrimSpace(content) IN
    HasPrefix(t, DQ) /\ HasSuffix(t, DQ) /\ Len(t) - 1 < 1

CleanUp(content) ==
    LET t == TrimSpace(content) IN
    IF HasPrefix(t, DQ) /\ HasSuffix(t, DQ) THEN SubSeq(t, 2, Len(t) - 1) ELSE t


\* --------------------------------------------------------------- float64
\* A float64 is finite (v, in hundredths), an infinity (v = 1 or -1) or NaN.
Fin(v) == [k |-> "fin", v |-> v]
Inf == [k |-> "inf", v |-> 1]
NaN == [k |-> "nan", v |-> 0]

FRank(a) == IF a.k = "inf" THEN a.v * 1000000 ELSE a.v

\* a > b on float64: false as soon as one side is NaN
FGt(a, b) == a.k # "nan" /\ b.k # "nan" /\ FRank(a) > FRank(b)

\* strconv.ParseFloat(s, 64) on the numerals the provider is taken to write:
\* a syntax error gives (0, err), a range error gives (+Inf, err)
ParseFloat(s) ==
    IF Len(s) # 1 THEN [err |-> TRUE, f |-> Fin(0)]
    ELSE CASE s[1] = "0.9" -> [err |-> FALSE, f |-> Fin(90)]
           [] s[1] = "0.5" -> [err |-> FALSE, f |-> Fin(50)]
           [] s[1] = "0.3" -> [err |-> FALSE, f |-> Fin(30)]
           [] s[1] = "2.5" -> [err |-> FALSE, f |-> Fin(250)]
           [] s[1] = "NaN" -> [err |-> FALSE, f |-> NaN]
           [] s[1] = "1e999" -> [err |-> TRUE, f |-> Inf]
           [] OTHER -> [err |-> TRUE, f |-> Fin(0)]

\* a Service.SearchKnowledge that keeps what ParseFloat returned beside its
\* error
ParseRelevanceKeepsValue(completion) == ParseFloat(TrimSpace(completion)).f

\* relevance, err := strconv.ParseFloat(strings.TrimSpace(completion), 64);
\* if err != nil { relevance = 0.0 }
ParseRelevance(completion) ==
    LET r == ParseFloat(TrimSpace(completion)) IN IF r.err THEN Fin(0) ELSE r.f

\* a Service.SearchKnowledge that tests relevance >= 0.3
RelevantFromThreshold(relevance) == FGt(relevance, Fin(Threshold - 1))

\* if relevance > 0.3
Relevant(relevance) == FGt(relevance, Fin(Threshold))

\* the less function given to sort.Slice
LessByRelevance(a, b) == FGt(a.Relevance, b.Relevance)

\* sort.Slice on fewer than 12 elements is an insertion sort:
\* for i := a + 1; i < b; i++ { for j := i; j > a && less(j, j-1); j-- { swap } }
\* an insertion sort whose swap copies the later element over the earlier
RECURSIVE SinkDownOverwrites(_, _)
SinkDownOverwrites(data, j) ==
    IF j > 1 /\ LessByRelevance(data[j], data[j - 1])
    THEN SinkDownOverwrites([data EXCEPT ![j - 1] = data[j]], j - 1)
    ELSE data

RECURSIVE SinkDown(_, _)
SinkDown(data, j) ==
    IF j > 1 /\ LessByRelevance(data[j], data[j - 1])
    THEN SinkDown([data EXCEPT ![j] = data[j - 1], ![j - 1] = data[j]], j - 1)
    ELSE data

RECURSIVE InsertionSort(_, _)
InsertionSort(data, i) ==
    IF i > Len(data) THEN data ELSE InsertionSort(SinkDown(data, i), i + 1)

SortByRelevance(data) == InsertionSort(data, 2)

\* ------------------------------------------------------- knowledge bodies
InformationLabel == "Information: "
ContextLabel == "Context: "
EntryHeader == "Knowledge Entry:"

\* a store case whose loop does not test i < len(BotResponse): an entry
\* with no bot response gets an empty context line
RECURSIVE StoreLinesUnguarded(_, _)
StoreLinesUnguarded(info, i) ==
    IF i > Len(info.UserInput) THEN << >>
    ELSE << InformationLabel >> \o info.UserInput[i] \o << NL >>
         \o << ContextLabel >>
         \o (IF i <= Len(info.BotResponse) THEN info.BotResponse[i] ELSE << >>)
         \o << NL >>
         \o StoreLinesUnguarded(info, i + 1)

\* the store case's loop over StoreInfo.UserInput
RECURSIVE StoreLines(_, _)
StoreLines(info, i) ==
    IF i > Len(info.UserInput) THEN << >>
    ELSE << InformationLabel >> \o info.UserInput[i] \o << NL >>
         \o (IF i <= Len(info.BotResponse)
             THEN << ContextLabel >> \o info.BotResponse[i] \o << NL >> ELSE << >>)
         \o StoreLines(info, i + 1)

\* storeContent.String()
StoreContent(info) == << EntryHeader, NL >> \o StoreLines(info, 1)

\* the terms the full-text index sees in a text (the porter tokenizer folds
\* case and drops punctuation)
TermsOf(c) ==
    CASE c \in {DQ, BS, SP, NL, LBRACE, RBRACE, LBRACK, RBRACK, COLON, COMMA} -> {}
      [] c = InformationLabel -> {"information"}
      [] c = ContextLabel -> {"context"}
      [] c = EntryHeader -> {"knowledge", "entry"}
      [] OTHER -> {c}
Terms(text) == UNION {TermsOf(text[i]) : i \in 1..Len(text)}

\* fts.content MATCH ?: every term of the query occurs in the document
Match(content, query) == Terms(query) # {} /\ Terms(query) \subseteq Terms(content)

\* ------------------------------------------------------------ the inputs
\* the writing of a JSON text, used to lay out the provider's completions
RECURSIVE Escape(_)
Escape(t) ==
    IF t = << >> THEN << >>
    ELSE (IF t[1] \in {DQ, BS} THEN << BS, t[1] >> ELSE << t[1] >>) \o Escape(Tail(t))

Quote(t) == << DQ >> \o Escape(t) \o << DQ >>

RECURSIVE Join(_)
Join(parts) ==
    IF parts = << >> THEN << >>
    ELSE IF Len(parts) = 1 THEN parts[1]
    ELSE parts[1] \o << COMMA >> \o Join(Tail(parts))

Member(key, value) == Quote(<< key >>) \o << COLON >> \o value
Object(members) == << LBRACE >> \o Join(members) \o << RBRACE >>
Array(elements) == << LBRACK >> \o Join(elements) \o << RBRACK >>
Answer(action, content) ==
    Object(<< Member("action", Quote(<< action >>)), Member("content", Quote(content)) >>)

\* what the provider may answer to the main prompt
Completions ==
    { << "hello" >>,
      << SP, DQ, "hello", DQ >>,
      << DQ >>,
      << "null" >>,
      Answer("reply", << "hi" >>),
      Answer("reply", Object(<< Member("content", Quote(<< "hi" >>)) >>)),
      Answer("reply", Object(<< Member("content", << "5" >>) >>)),
      Answer("search", << LBRACK, "hi" >>),
      Answer("search", << SP, DQ, DQ, "quoted", DQ, DQ >>),
      Answer("delete", << "hi" >>),
      Answer("delete", << DQ >>),
      Object(<< Member("content", Quote(<< "hi" >>)) >>),
      Object(<< Member("action", Quote(<< "store" >>)),
                Member("content", Quote(<< "noted" >>)),
                Member("store_info", Object(<<
                    Member("user_input", Array(<< Quote(<< "cats" >>), Quote(<< "dogs" >>) >>)),
                    Member("bot_response", Array(<< Quote(<< "purr" >>) >>)) >>)) >>),
      Object(<< Member("action", Quote(<< "store" >>)),
                Member("content", Quote(<< "noted" >>)),
                Member("store_info", Object(<<
                    Member("user_input", Array(<< Quote(<< "cats" >>) >>)),
                    Member("bot_response", Array(<< Quote(<< "purr" >>), Quote(<< "bark" >>) >>)) >>)) >>),
      Object(<< Member("action", Quote(<< "new_conversation" >>)),
                Member("content", Quote(<< "moved" >>)),
                Member("new_title", Quote(<< "T" >>)) >>) }

\* what the provider may answer to a relevance prompt
ScoreCompletions ==
    { << SP, "0.5", SP >>, << "0.3" >>, << "2.5" >>,
      << "NaN" >>, << "1e999" >>, << "high" >> }

\* what a user may send, and the conversation identifiers a request may name
UserContents == { << "cats" >> }
InboundIDs == 1..MaxConvs
Titles == { << "chat" >> }


\* ------------------------------------------------------------- the state
VARIABLES
    rev,            \* which of the two revisions of package db the build holds
    conversations,  \* table conversations: id -> [title, created_at]
    convSeq,        \* its AUTOINCREMENT sequence
    messages,       \* table messages, in rowid order
    msgSeq,
    knowledge,      \* table knowledge, in rowid order
    knowSeq,
    knowledge_fts,  \* the full-text index: rows [docid, content]
    pc,             \* where the turn (HandleMessage, then ProcessMessage) is
    userMsg,        \* the inbound message
    sk,             \* Service.SearchKnowledge: results, knowledgeResults and
                    \* the completions of the scoring calls so far
    searchFailed,   \* whether s.SearchKnowledge returned an error
    retrieved,      \* ProcessMessage's knowledge
    prompt,
    completion,
    parseFailed,    \* whether json.Unmarshal of the completion failed
    llmResponse,
    kbFailed,       \* whether s.db.SaveToKnowledgeBase returned an error
    response,       \* the message ProcessMessage returns
    outcome,        \* how the turn ended
    calls,          \* the store writes ProcessMessage has called, in order
    elapsed,        \* time since Service.ProcessMessage began, in units of 10 s
    deadline        \* << t >> once context.WithTimeout has set a deadline, else << >>

storeVars == << conversations, convSeq, messages, msgSeq, knowledge, knowSeq, knowledge_fts >>
turnVars == << pc, userMsg, sk, searchFailed, retrieved, prompt, completion, parseFailed,
               llmResponse, kbFailed, response, outcome, calls >>
timeVars == << elapsed, deadline >>
vars == << rev, storeVars, turnVars, timeVars >>

\* PRAGMA foreign_keys is off unless the connection sets it, and the data
\* source name is the bare file name: the FOREIGN KEY clauses are not enforced
ForeignKeys == FALSE

NoMessage == [ID |-> 0, ConvID |-> 0, Role |-> "", Content |-> NoText, CreatedAt |-> 0]
NoSearch == [cands |-> << >>, scores |-> << >>, results |-> << >>]

\* the permutations of a set of rows, and those ordered by created_at DESC
\* (rows of one second come in any order)
Orderings(S) ==
    {f \in [1..Cardinality(S) -> S] : \A i, j \in 1..Cardinality(S) : i # j => f[i] # f[j]}
NewestFirst(S) ==
    {f \in Orderings(S) :
        \A i, j \in 1..Cardinality(S) : i < j => f[i].created_at >= f[j].created_at}

Rows(table) == {table[i] : i \in 1..Len(table)}

\* what a database file holds when the server opens it: nothing, or one
\* conversation with the user messages and knowledge entries of earlier turns
OldKnowledge(n) ==
    [i \in 1..n |->
        [id |-> i,
         content |-> StoreContent([UserInput |-> IF i = 1 THEN << << "cats" >> >>
                                                 ELSE << << "cats" >>, << "dogs" >> >>,
                                   BotResponse |-> << << "purr" >> >>]),
         conversation_id |-> 1,
         created_at |-> 0]]
OldMessages(n) ==
    [i \in 1..n |->
        [id |-> i, conversation_id |-> 1, role |-> "user", content |-> << "cats" >>,
         created_at |-> 0]]

TurnInit ==
    /\ pc = "idle"
    /\ userMsg = NoMessage
    /\ sk = NoSearch
    /\ searchFailed = FALSE
    /\ retrieved = << >>
    /\ prompt = << >>
    /\ completion = NoText
    /\ parseFailed = FALSE
    /\ llmResponse = ZeroLLMResponse
    /\ kbFailed = FALSE
    /\ response = NoMessage
    /\ outcome = "none"
    /\ calls = << >>

\* db.New: the schema script drops and recreates knowledge_fts
Init ==
    /\ rev \in {1, 2}
    /\ \E n \in 0..MaxKnowledge :
        /\ conversations = [i \in (IF n = 0 THEN {} ELSE {1}) |->
                               [title |-> << "chat" >>, created_at |-> 0]]
        /\ convSeq = IF n = 0 THEN 0 ELSE 1
        /\ messages = OldMessages(n)
        /\ msgSeq = n
        /\ knowledge = OldKnowledge(n)
        /\ knowSeq = n
    /\ knowledge_fts = {}
    /\ TurnInit
    /\ elapsed = 0
    /\ deadline = << >>

\* ------------------------------------------------------ store operations
\* CURRENT_TIMESTAMP has a resolution of one second.  The rows a database
\* file already holds are of second 0; the statements of the run all read
\* the same later second, so that the rows they insert come in any order
\* under ORDER BY created_at DESC.
CurrentTimestamp == 1

\* INSERT INTO messages ... RETURNING id, created_at
CanInsertMessage(convID) ==
    /\ msgSeq < MaxMessages
    /\ ForeignKeys => convID \in DOMAIN conversations
MessageRow(convID, role, content) ==
    [id |-> msgSeq + 1, conversation_id |-> convID, role |-> role, content |-> content,
     created_at |-> CurrentTimestamp]
\* the models.Message after Scan(&msg.ID, &msg.CreatedAt)
Saved(row) ==
    [ID |-> row.id, ConvID |-> row.conversation_id, Role |-> row.role,
     Content |-> row.content, CreatedAt |-> row.created_at]
InsertMessage(row) ==
    /\ messages' = Append(messages, row)
    /\ msgSeq' = row.id

\* INSERT INTO conversations ... RETURNING id, created_at
CanInsertConversation == convSeq < MaxConvs
InsertConversation(title) ==
    /\ conversations' =
           [i \in DOMAIN conversations \cup {convSeq + 1} |->
               IF i = convSeq + 1 THEN [title |-> title, created_at |-> CurrentTimestamp]
               ELSE conversations[i]]
    /\ convSeq' = convSeq + 1

\* INSERT INTO knowledge_fts(docid, ...): a docid already in the index is a
\* constraint failure
FtsInsert(fts, docid, content) ==
    IF \E r \in fts : r.docid = docid
    THEN [ok |-> FALSE, fts |-> fts]
    ELSE [ok |-> TRUE, fts |-> fts \cup {[docid |-> docid, content |-> content]}]

KnowledgeRow(content, conversationID) ==
    [id |-> knowSeq + 1, content |-> content, conversation_id |-> conversationID,
     created_at |-> CurrentTimestamp]

\* the statements of SaveToKnowledgeBase inside its transaction: the INSERT
\* INTO knowledge fires trigger knowledge_ai, which inserts the row into the
\* index; revision 1 then inserts the same docid into the index itself
KnowledgeTx(content, conversationID) ==
    LET row == KnowledgeRow(content, conversationID)
        byTrigger == FtsInsert(knowledge_fts, row.id, content)
        byHand == IF rev = 1 THEN FtsInsert(byTrigger.fts, row.id, content) ELSE byTrigger
    IN [ok |-> byTrigger.ok /\ byHand.ok, row |-> row, fts |-> byHand.fts]

CanInsertKnowledge(conversationID) ==
    /\ knowSeq < MaxKnowledge
    /\ ForeignKeys => conversationID \in DOMAIN conversations

\* the rows DeleteConversation's three DELETEs leave; trigger knowledge_ad
\* removes the index rows of the deleted knowledge rows
DeleteTx(id) ==
    LET gone == {k.id : k \in {r \in Rows(knowledge) : r.conversation_id = id}} IN
    [messages |-> SelectSeq(messages, LAMBDA m : m.conversation_id # id),
     knowledge |-> SelectSeq(knowledge, LAMBDA k : k.conversation_id # id),
     fts |-> {r \in knowledge_fts : r.docid \notin gone},
     conversations |-> [i \in DOMAIN conversations \ {id} |-> conversations[i]]]

\* revision 1's syncFTS: the knowledge rows with no index row are indexed
SyncFTS(fts) ==
    fts \cup {[docid |-> k.id, content |-> k.content] :
                 k \in {r \in Rows(knowledge) : \A f \in fts : f.docid # r.id}}

\* SELECT ... FROM knowledge k JOIN knowledge_fts fts ON k.id = fts.docid
\* WHERE fts.content MATCH ? ORDER BY k.created_at DESC
SearchRows(fts, query) ==
    {k \in Rows(knowledge) : \E f \in fts : f.docid = k.id /\ Match(f.content, query)}
Scanned(rows) ==
    [i \in 1..Len(rows) |->
        [Content |-> rows[i].content, ConversationID |-> rows[i].conversation_id,
         CreatedAt |-> rows[i].created_at]]

\* SELECT ... FROM messages WHERE conversation_id = ? ORDER BY created_at DESC LIMIT ?
HistoryRows(convID) == {m \in Rows(messages) : m.conversation_id = convID}
Limit(rows, limit) == SubSeq(rows, 1, IF Len(rows) < limit THEN Len(rows) ELSE limit)

\* ------------------------------------------------------------ the prompt
SystemPrompt == "You are an AI assistant that can: ..."
KnowledgeHeader == "Relevant knowledge from database:"
HistoryHeader == "Conversation history:"
CurrentHeader == "Current message:"
ResponseCue == "Response:"

\* fmt's %.2f of a relevance above the threshold
Format2f(f) ==
    IF f.k = "nan" THEN "NaN"
    ELSE IF f.k = "inf" THEN "+Inf"
    ELSE ToString(f.v \div 100) \o "."
         \o (IF f.v % 100 < 10 THEN "0" ELSE "") \o ToString(f.v % 100)

\* "- %s (relevance: %.2f)\n" for each k of knowledge
RECURSIVE KnowledgeLines(_)
KnowledgeLines(ks) ==
    IF ks = << >> THEN << >>
    ELSE << "- " >> \o ks[1].Content \o << " (relevance: ", Format2f(ks[1].Relevance), ")", NL >>
         \o KnowledgeLines(Tail(ks))

\* "%s: %s\n" for i := len(history) - 1; i >= 0; i--
RECURSIVE HistoryLines(_, _)
HistoryLines(hist, i) ==
    IF i < 1 THEN << >>
    ELSE << hist[i].role, ": " >> \o hist[i].content \o << NL >> \o HistoryLines(hist, i - 1)

BuildPrompt(ks, hist, msg) ==
    << SystemPrompt, NL, NL, KnowledgeHeader, NL >>
    \o KnowledgeLines(ks)
    \o << NL, NL, HistoryHeader, NL >>
    \o HistoryLines(hist, Len(hist))
    \o << NL, CurrentHeader, NL, msg.Role, ": " >> \o msg.Content \o << NL, NL, ResponseCue >>

\* --------------------------------------------------------------- the turn
Call(op, ok, convID, content) == [op |-> op, ok |-> ok, conv |-> convID, content |-> content]

\* an error that is recorded without returning from the turn
FinishWithoutReturn(how) ==
    /\ pc' = pc
    /\ outcome' = how

Finish(how) ==
    /\ pc' = "done"
    /\ outcome' = how

\* Handler.HandleMessage up to the call of ProcessMessage: the user message
\* is saved, or the request ends with status 500
HandleMessage(convID, content) ==
    /\ pc = "idle"
    /\ sk' = NoSearch
    /\ searchFailed' = FALSE
    /\ retrieved' = << >>
    /\ prompt' = << >>
    /\ completion' = NoText
    /\ parseFailed' = FALSE
    /\ llmResponse' = ZeroLLMResponse
    /\ kbFailed' = FALSE
    /\ response' = NoMessage
    /\ calls' = << >>
    /\ \/ /\ CanInsertMessage(convID)
          /\ LET row == MessageRow(convID, "user", content) IN
             /\ InsertMessage(row)
             /\ userMsg' = Saved(row)
          /\ pc' = "search"
          /\ outcome' = "none"
       \/ /\ userMsg' = [NoMessage EXCEPT !.ConvID = convID, !.Role = "user",
                                          !.Content = content]
          /\ Finish("save user message failed")
          /\ UNCHANGED << messages, msgSeq >>
    /\ UNCHANGED << rev, timeVars, conversations, convSeq, knowledge, knowSeq, knowledge_fts >>

\* Service.SearchKnowledge returns to ProcessMessage
SearchReturns(results) ==
    /\ retrieved' = SortByRelevance(results)
    /\ pc' = "history"

\* a ProcessMessage that keeps what was scored before the failure
SearchFailsKeepsScored ==
    /\ searchFailed' = TRUE
    /\ retrieved' = SortByRelevance(sk.results)
    /\ pc' = "history"

SearchFails ==
    /\ searchFailed' = TRUE
    /\ retrieved' = << >>
    /\ pc' = "history"

\* s.db.SearchKnowledge(query), first step of Service.SearchKnowledge
DbSearchKnowledge ==
    /\ pc = "search"
    /\ LET synced == IF rev = 1 THEN SyncFTS(knowledge_fts) ELSE knowledge_fts IN
       \/ \E rows \in NewestFirst(SearchRows(synced, userMsg.Content)) :
            /\ knowledge_fts' = synced
            /\ sk' = [NoSearch EXCEPT !.cands = Scanned(rows)]
            /\ IF rows = << >>
               THEN SearchReturns(<< >>) /\ UNCHANGED searchFailed
               ELSE pc' = "score" /\ UNCHANGED << retrieved, searchFailed >>
       \/ \E fts \in {knowledge_fts, synced} :
            /\ knowledge_fts' = fts
            /\ SearchFails
            /\ UNCHANGED sk
    /\ UNCHANGED << rev, timeVars, conversations, convSeq, messages, msgSeq, knowledge, knowSeq,
                    userMsg, prompt, completion, parseFailed, llmResponse, kbFailed,
                    response, outcome, calls >>

\* one round of the loop over results: the provider scores the candidate
ScoreCandidate ==
    /\ pc = "score"
    /\ LET i == Len(sk.scores) + 1
           result == sk.cands[i]
       IN \/ \E text \in ScoreCompletions :
               LET relevance == ParseRelevance(text)
                   knowledgeResults ==
                       IF Relevant(relevance)
                       THEN Append(sk.results,
                                [Content |-> result.Content, Relevance |-> relevance,
                                 CreatedAt |-> result.CreatedAt, cand |-> i])
                       ELSE sk.results
               IN /\ sk' = [sk EXCEPT !.scores = Append(@, text), !.results = knowledgeResults]
                  /\ IF i = Len(sk.cands)
                     THEN SearchReturns(knowledgeResults)
                     ELSE UNCHANGED << pc, retrieved >>
                  /\ UNCHANGED searchFailed
          \/ /\ SearchFails
             /\ UNCHANGED sk
    /\ UNCHANGED << rev, timeVars, storeVars, userMsg, prompt, completion, parseFailed,
                    llmResponse, kbFailed, response, outcome, calls >>

\* s.db.GetConversationHistory(msg.ConvID, 10) and the building of the prompt
GetHistory ==
    /\ pc = "history"
    /\ \/ \E rows \in NewestFirst(HistoryRows(userMsg.ConvID)) :
            /\ prompt' = BuildPrompt(retrieved, Limit(rows, HistoryLimit), userMsg)
            /\ pc' = "complete"
            /\ UNCHANGED outcome
       \/ /\ Finish("get history failed")
          /\ UNCHANGED prompt
    /\ sk' = NoSearch
    /\ retrieved' = << >>
    /\ UNCHANGED << rev, timeVars, storeVars, userMsg, searchFailed, completion, parseFailed,
                    llmResponse, kbFailed, response, calls >>

\* the main completion call, the parse of its answer and the unwrap
Complete ==
    /\ pc = "complete"
    /\ \/ \E text \in Completions :
            /\ completion' = text
            /\ parseFailed' = UnmarshalLLMResponse(text).err
            /\ llmResponse' = ParseCompletion(text)
            /\ pc' = "cleanup"
            /\ UNCHANGED outcome
       \/ /\ Finish("completion failed")
          /\ UNCHANGED << completion, parseFailed, llmResponse >>
    /\ prompt' = << >>
    /\ UNCHANGED << rev, timeVars, storeVars, userMsg, sk, searchFailed, retrieved, kbFailed,
                    response, calls >>

\* the clean-up of llmResponse.Content
CleanUpContent ==
    /\ pc = "cleanup"
    /\ IF CleanUpPanics(llmResponse.Content)
       THEN Finish("panic") /\ UNCHANGED llmResponse
       ELSE /\ llmResponse' = [llmResponse EXCEPT !.Content = CleanUp(@)]
            /\ pc' = "dispatch"
            /\ UNCHANGED outcome
    /\ UNCHANGED << rev, timeVars, storeVars, userMsg, sk, searchFailed, retrieved, prompt,
                    completion, parseFailed, kbFailed, response, calls >>

\* s.db.SaveMessage(response) and the return that follows it
SaveResponse(convID) ==
    \/ /\ CanInsertMessage(convID)
       /\ LET row == MessageRow(convID, "assistant", llmResponse.Content) IN
          /\ InsertMessage(row)
          /\ response' = Saved(row)
       /\ calls' = Append(calls, Call("SaveMessage", TRUE, convID, llmResponse.Content))
       /\ Finish("ok")
    \/ /\ calls' = Append(calls, Call("SaveMessage", FALSE, convID, llmResponse.Content))
       /\ Finish("save message failed")
       /\ UNCHANGED << messages, msgSeq, response >>

\* case "reply"
ReplyCase ==
    /\ pc = "dispatch"
    /\ llmResponse.Action = << "reply" >>
    /\ SaveResponse(userMsg.ConvID)
    /\ UNCHANGED << rev, timeVars, conversations, convSeq, knowledge, knowSeq, knowledge_fts,
                    userMsg, sk, searchFailed, retrieved, prompt, completion, parseFailed,
                    llmResponse, kbFailed >>

\* a store case that returns the error of SaveToKnowledgeBase
StoreCaseAborts ==
    /\ pc = "dispatch"
    /\ llmResponse.Action = << "store" >>
    /\ LET content == StoreContent(llmResponse.StoreInfo)
           tx == KnowledgeTx(content, userMsg.ConvID)
       IN \/ /\ CanInsertKnowledge(userMsg.ConvID)
             /\ tx.ok
             /\ knowledge' = Append(knowledge, tx.row)
             /\ knowSeq' = tx.row.id
             /\ knowledge_fts' = tx.fts
             /\ kbFailed' = FALSE
             /\ calls' = Append(calls, Call("SaveToKnowledgeBase", TRUE, userMsg.ConvID, content))
             /\ pc' = "fallthrough"
             /\ UNCHANGED outcome
          \/ /\ kbFailed' = TRUE
             /\ calls' = Append(calls, Call("SaveToKnowledgeBase", FALSE, userMsg.ConvID, content))
             /\ Finish("save knowledge failed")
             /\ UNCHANGED << knowledge, knowSeq, knowledge_fts >>
    /\ UNCHANGED << rev, timeVars, conversations, convSeq, messages, msgSeq, userMsg, sk,
                    searchFailed, retrieved, prompt, completion, parseFailed, llmResponse,
                    response >>

\* case "store", up to the fallthrough
StoreCase ==
    /\ pc = "dispatch"
    /\ llmResponse.Action = << "store" >>
    /\ LET content == StoreContent(llmResponse.StoreInfo)
           tx == KnowledgeTx(content, userMsg.ConvID)
       IN \/ /\ CanInsertKnowledge(userMsg.ConvID)
             /\ tx.ok
             /\ knowledge' = Append(knowledge, tx.row)
             /\ knowSeq' = tx.row.id
             /\ knowledge_fts' = tx.fts
             /\ kbFailed' = FALSE
             /\ calls' = Append(calls, Call("SaveToKnowledgeBase", TRUE, userMsg.ConvID, content))
          \/ /\ kbFailed' = TRUE
             /\ calls' = Append(calls, Call("SaveToKnowledgeBase", FALSE, userMsg.ConvID, content))
             /\ UNCHANGED << knowledge, knowSeq, knowledge_fts >>
    /\ pc' = "fallthrough"
    /\ UNCHANGED << rev, timeVars, conversations, convSeq, messages, msgSeq, userMsg, sk,
                    searchFailed, retrieved, prompt, completion, parseFailed, llmResponse,
                    response, outcome >>

\* a search case that answers without saving the message
SearchCaseUnsaved ==
    /\ \/ pc = "dispatch" /\ llmResponse.Action = << "search" >>
       \/ pc = "fallthrough"
    /\ response' = [NoMessage EXCEPT !.ConvID = userMsg.ConvID, !.Role = "assistant",
                                     !.Content = llmResponse.Content]
    /\ Finish("ok")
    /\ UNCHANGED << rev, timeVars, storeVars, userMsg, sk, searchFailed, retrieved, prompt,
                    completion, parseFailed, llmResponse, kbFailed, calls >>

\* case "search", which the store case falls through to
SearchCase ==
    /\ \/ pc = "dispatch" /\ llmResponse.Action = << "search" >>
       \/ pc = "fallthrough"
    /\ SaveResponse(userMsg.ConvID)
    /\ UNCHANGED << rev, timeVars, conversations, convSeq, knowledge, knowSeq, knowledge_fts,
                    userMsg, sk, searchFailed, retrieved, prompt, completion, parseFailed,
                    llmResponse, kbFailed >>

\* case "new_conversation": s.db.CreateConversation(llmResponse.NewTitle)
NewConversationCase ==
    /\ pc = "dispatch"
    /\ llmResponse.Action = << "new_conversation" >>
    /\ \/ /\ CanInsertConversation
          /\ InsertConversation(llmResponse.NewTitle)
          /\ calls' = Append(calls, Call("CreateConversation", TRUE, convSeq + 1,
                                         llmResponse.NewTitle))
          /\ pc' = "new_conversation"
          /\ UNCHANGED outcome
       \/ /\ calls' = Append(calls, Call("CreateConversation", FALSE, 0, llmResponse.NewTitle))
          /\ Finish("create conversation failed")
          /\ UNCHANGED << conversations, convSeq >>
    /\ UNCHANGED << rev, timeVars, messages, msgSeq, knowledge, knowSeq, knowledge_fts, userMsg,
                    sk, searchFailed, retrieved, prompt, completion, parseFailed,
                    llmResponse, kbFailed, response >>

\* case "new_conversation": the response is saved in the new conversation
NewConversationReply ==
    /\ pc = "new_conversation"
    /\ SaveResponse(calls[Len(calls)].conv)
    /\ UNCHANGED << rev, timeVars, conversations, convSeq, knowledge, knowSeq, knowledge_fts,
                    userMsg, sk, searchFailed, retrieved, prompt, completion, parseFailed,
                    llmResponse, kbFailed >>

\* default: unknown action
UnknownAction ==
    /\ pc = "dispatch"
    /\ llmResponse.Action \notin
           {<< "reply" >>, << "store" >>, << "search" >>, << "new_conversation" >>}
    /\ Finish("unknown action")
    /\ UNCHANGED << rev, timeVars, storeVars, userMsg, sk, searchFailed, retrieved, prompt,
                    completion, parseFailed, llmResponse, kbFailed, response, calls >>

\* ---------------------------------------------------- the other requests
\* Handler.GetConversations, POST
CreateConversation(title) ==
    /\ CanInsertConversation
    /\ InsertConversation(title)
    /\ UNCHANGED << rev, timeVars, messages, msgSeq, knowledge, knowSeq, knowledge_fts, turnVars >>

\* Handler.DeleteConversation: the transaction commits (a failure rolls it
\* back and changes nothing)
DeleteConversation(id) ==
    /\ \/ id \in DOMAIN conversations
       \/ HistoryRows(id) # {}
       \/ \E k \in Rows(knowledge) : k.conversation_id = id
    /\ LET tx == DeleteTx(id) IN
       /\ messages' = tx.messages
       /\ knowledge' = tx.knowledge
       /\ knowledge_fts' = tx.fts
       /\ conversations' = tx.conversations
    /\ UNCHANGED << rev, timeVars, convSeq, msgSeq, knowSeq, turnVars >>

Next ==
    \/ \E convID \in InboundIDs, content \in UserContents : HandleMessage(convID, content)
    \/ DbSearchKnowledge
    \/ ScoreCandidate
    \/ GetHistory
    \/ Complete
    \/ CleanUpContent
    \/ ReplyCase
    \/ StoreCase
    \/ SearchCase
    \/ NewConversationCase
    \/ NewConversationReply
    \/ UnknownAction
    \/ \E title \in Titles : CreateConversation(title)
    \/ \E id \in InboundIDs : DeleteConversation(id)

Spec == Init /\ [][Next]_vars

\* ------------------------------------------------ the store, call by call
\* The Database methods as the handlers call them, one call after another,
\* with no turn in flight.  calls holds the last call and outcome its result:
\* "ok", "constraint failed" (a statement the database refuses) or
\* "io error" (a statement or the commit fails for want of disk or lock);
\* sk.cands holds the rows the call returned, when it was a SearchKnowledge.
Idle ==
    UNCHANGED << rev, timeVars, pc, userMsg, searchFailed, retrieved, prompt, completion,
                 parseFailed, llmResponse, kbFailed, response >>

Answered(op, convID, content, result, rows) ==
    /\ calls' = << Call(op, result = "ok", convID, content) >>
    /\ outcome' = result
    /\ sk' = [NoSearch EXCEPT !.cands = rows]

Called(op, convID, content, result) == Answered(op, convID, content, result, << >>)

\* the calls that insert a message or a knowledge entry are followed while
\* the two tables have handed out fewer than MaxMessages identifiers
StoreRoom == msgSeq + knowSeq < MaxMessages

\* the conversations the rows are written to: the one the database file may
\* hold already, and the last the conversations table can hold
StoreIDs == {1, MaxConvs}

\* Database.SaveMessage
DbSaveMessage(convID, content) ==
    /\ StoreRoom
    /\ \/ /\ CanInsertMessage(convID)
          /\ InsertMessage(MessageRow(convID, "user", content))
          /\ Called("SaveMessage", convID, content, "ok")
       \/ /\ UNCHANGED << messages, msgSeq >>
          /\ Called("SaveMessage", convID, content, "io error")
    /\ UNCHANGED << conversations, convSeq, knowledge, knowSeq, knowledge_fts >>
    /\ Idle

\* Database.CreateConversation
DbCreateConversation(title) ==
    /\ \/ /\ CanInsertConversation
          /\ InsertConversation(title)
          /\ Called("CreateConversation", convSeq + 1, title, "ok")
       \/ /\ UNCHANGED << conversations, convSeq >>
          /\ Called("CreateConversation", 0, title, "io error")
    /\ UNCHANGED << messages, msgSeq, knowledge, knowSeq, knowledge_fts >>
    /\ Idle

\* Database.SaveToKnowledgeBase: the transaction commits, or a statement
\* fails and the deferred tx.Rollback() undoes the ones before it
DbSaveToKnowledgeBase(content, conversationID) ==
    /\ StoreRoom
    /\ LET tx == KnowledgeTx(content, conversationID) IN
       \/ /\ CanInsertKnowledge(conversationID)
          /\ tx.ok
          /\ knowledge' = Append(knowledge, tx.row)
          /\ knowSeq' = tx.row.id
          /\ knowledge_fts' = tx.fts
          /\ Called("SaveToKnowledgeBase", conversationID, content, "ok")
       \/ /\ CanInsertKnowledge(conversationID)
          /\ ~tx.ok
          /\ UNCHANGED << knowledge, knowSeq, knowledge_fts >>
          /\ Called("SaveToKnowledgeBase", conversationID, content, "constraint failed")
       \/ /\ UNCHANGED << knowledge, knowSeq, knowledge_fts >>
          /\ Called("SaveToKnowledgeBase", conversationID, content, "io error")
    /\ UNCHANGED << conversations, convSeq, messages, msgSeq >>
    /\ Idle

\* the tables as they are
Tables ==
    [messages |-> messages, knowledge |-> knowledge, fts |-> knowledge_fts,
     conversations |-> conversations]

\* the tables inside DeleteConversation's transaction after the first k of
\* its three DELETE statements
DeleteStatements(id, k) ==
    LET tx == DeleteTx(id) IN
    [messages |-> IF k >= 1 THEN tx.messages ELSE messages,
     knowledge |-> IF k >= 2 THEN tx.knowledge ELSE knowledge,
     fts |-> IF k >= 2 THEN tx.fts ELSE knowledge_fts,
     conversations |-> IF k >= 3 THEN tx.conversations ELSE conversations]

\* where DeleteConversation can fail: at one of its three statements or at
\* the commit; 0 stands for no failure
DeleteFailPoints == 0..4

\* a DeleteConversation outside a transaction: the statements before the
\* failing one stay
DeleteOutcomeAutocommit(id, failAt) ==
    IF failAt = 0 THEN DeleteStatements(id, 3)
    ELSE DeleteStatements(id, IF failAt = 4 THEN 3 ELSE failAt - 1)

\* what Database.DeleteConversation leaves: tx.Commit() makes the three
\* statements' effect the tables, and a return before it runs the deferred
\* tx.Rollback()
DeleteOutcome(id, failAt) ==
    IF failAt = 0 THEN DeleteStatements(id, 3) ELSE Tables

\* Database.DeleteConversation
DbDeleteConversation(id) ==
    /\ \E result \in {[after |-> DeleteOutcome(id, failAt), ok |-> failAt = 0] :
                           failAt \in DeleteFailPoints} :
          /\ messages' = result.after.messages
          /\ knowledge' = result.after.knowledge
          /\ knowledge_fts' = result.after.fts
          /\ conversations' = result.after.conversations
          /\ Called("DeleteConversation", id, NoText,
                    IF result.ok THEN "ok" ELSE "io error")
    /\ UNCHANGED << convSeq, msgSeq, knowSeq >>
    /\ Idle

\* db.New on the database file of the run before: the schema script keeps
\* the three tables and their rows (CREATE TABLE IF NOT EXISTS), drops
\* knowledge_fts and creates it again, empty
DbNew ==
    /\ knowledge_fts' = {}
    /\ Called("New", 0, NoText, "ok")
    /\ UNCHANGED << conversations, convSeq, messages, msgSeq, knowledge, knowSeq >>
    /\ Idle

\* Database.SearchKnowledge(query): the first revision creates the index
\* table if it is missing and inserts the knowledge rows the index lacks,
\* then both run the JOIN; a statement may fail
DbSearchKnowledgeCall(query) ==
    /\ LET synced == IF rev = 1 THEN SyncFTS(knowledge_fts) ELSE knowledge_fts IN
       \/ \E rows \in NewestFirst(SearchRows(synced, query)) :
            /\ knowledge_fts' = synced
            /\ Answered("SearchKnowledge", 0, query, "ok", Scanned(rows))
       \/ \E fts \in {knowledge_fts, synced} :
            /\ knowledge_fts' = fts
            /\ Called("SearchKnowledge", 0, query, "io error")
    /\ UNCHANGED << conversations, convSeq, messages, msgSeq, knowledge, knowSeq >>
    /\ Idle

StoreNext ==
    \/ \E convID \in StoreIDs, content \in UserContents : DbSaveMessage(convID, content)
    \/ \E title \in Titles : DbCreateConversation(title)
    \/ \E convID \in StoreIDs, content \in UserContents :
          DbSaveToKnowledgeBase(StoreContent([UserInput |-> << content >>,
                                              BotResponse |-> << >>]), convID)
    \/ \E id \in InboundIDs : DbDeleteConversation(id)
    \/ DbNew
    \/ \E query \in UserContents : DbSearchKnowledgeCall(query)

StoreSpec == Init /\ [][StoreNext]_vars

\* ------------------------------------------------ the turn against the clock
\* Service.ProcessMessage up to the return of the main completion call, with
\* the time each call takes.  elapsed is 0 when HandleMessage hands the saved
\* message to ProcessMessage; a call takes 0..MaxDelay units of 10 s.  The
\* request context of http.ListenAndServe carries no deadline, so that only
\* context.WithTimeout ends a call early.
MaxDelay == 4

\* 30*time.Second, in units of 10 s
Timeout == 3

Delays == 0..MaxDelay

Takes(d) == elapsed' = elapsed + d

Timed ==
    UNCHANGED << rev, conversations, convSeq, messages, msgSeq, knowledge, knowSeq,
                 userMsg, retrieved, prompt, completion, parseFailed, llmResponse,
                 kbFailed, response, calls >>

\* s.db.SearchKnowledge(query) under the context ProcessMessage was given
TimedDbSearch(d) ==
    /\ pc = "search"
    /\ Takes(d)
    /\ LET synced == IF rev = 1 THEN SyncFTS(knowledge_fts) ELSE knowledge_fts IN
       \/ \E rows \in NewestFirst(SearchRows(synced, userMsg.Content)) :
            /\ knowledge_fts' = synced
            /\ sk' = [NoSearch EXCEPT !.cands = Scanned(rows)]
            /\ pc' = IF rows = << >> THEN "history" ELSE "score"
            /\ UNCHANGED searchFailed
       \/ /\ searchFailed' = TRUE
          /\ pc' = "history"
          /\ UNCHANGED << knowledge_fts, sk >>
    /\ UNCHANGED << outcome, deadline >>
    /\ Timed

\* one scoring call, llms.GenerateFromSinglePrompt(ctx, s.llm, prompt) of
\* Service.SearchKnowledge, under the same context
TimedScore(d) ==
    /\ pc = "score"
    /\ Takes(d)
    /\ \/ /\ sk' = [sk EXCEPT !.scores = Append(@, << "0.5" >>)]
          /\ pc' = IF Len(sk.scores) + 1 = Len(sk.cands) THEN "history" ELSE "score"
          /\ UNCHANGED searchFailed
       \/ /\ searchFailed' = TRUE
          /\ pc' = "history"
          /\ UNCHANGED sk
    /\ UNCHANGED << knowledge_fts, outcome, deadline >>
    /\ Timed

\* s.db.GetConversationHistory, the prompt, and then
\* ctx, cancel := context.WithTimeout(ctx, 30*time.Second)
TimedHistory(d) ==
    /\ pc = "history"
    /\ Takes(d)
    /\ \/ /\ deadline' = << elapsed + d + Timeout >>
          /\ pc' = "complete"
          /\ UNCHANGED outcome
       \/ /\ Finish("get history failed")
          /\ UNCHANGED deadline
    /\ UNCHANGED << knowledge_fts, sk, searchFailed >>
    /\ Timed

\* the main completion call under the context of WithTimeout: it returns
\* before the deadline, or fails at the deadline at the latest
TimedComplete(d) ==
    /\ pc = "complete"
    /\ IF elapsed + d < deadline[1]
       THEN /\ Takes(d)
            /\ \/ pc' = "cleanup" /\ UNCHANGED outcome
               \/ Finish("completion failed")
       ELSE /\ elapsed' = deadline[1]
            /\ Finish("completion failed")
    /\ UNCHANGED << knowledge_fts, sk, searchFailed, deadline >>
    /\ Timed

TimedNext ==
    \/ \E convID \in InboundIDs, content \in UserContents : HandleMessage(convID, content)
    \/ \E d \in Delays : TimedDbSearch(d)
    \/ \E d \in Delays : TimedScore(d)
    \/ \E d \in Delays : TimedHistory(d)
    \/ \E d \in Delays : TimedComplete(d)

TimedSpec == Init /\ [][TimedNext]_vars

\* ------------------------------------------------------------ properties
\* Service.SearchKnowledge has returned its list to ProcessMessage
SearchReturned == pc = "history" /\ ~searchFailed

Above(f, hundredths) == f.k = "inf" \/ (f.k = "fin" /\ f.v > hundredths)
AtLeast(a, b) == a.k # "nan" /\ b.k # "nan" /\ FRank(a) >= FRank(b)

\* C1: every result Service.SearchKnowledge returns has a Relevance strictly
\* greater than 0.3, and the list it returns is sorted non-increasing by
\* Relevance, whatever the candidates and the scores the provider gave them.
C1_AboveThresholdAndSorted ==
    SearchReturned =>
        /\ \A i \in 1..Len(retrieved) : Above(retrieved[i].Relevance, 30)
        /\ \A i, j \in 1..Len(retrieved) :
               i < j => AtLeast(retrieved[i].Relevance, retrieved[j].Relevance)

\* two results are returned and the sort has put the later candidate first
C1_Witness ==
    /\ SearchReturned
    /\ Len(retrieved) = 2
    /\ retrieved[1].cand > retrieved[2].cand
    /\ retrieved[1].Relevance # retrieved[2].Relevance

NotANumber(text) == ParseFloat(TrimSpace(text)).err
Returned(i) == \E r \in 1..Len(retrieved) : retrieved[r].cand = i

\* C2: a candidate whose completion cannot be parsed as a number is scored
\* 0.0 and is absent from the list Service.SearchKnowledge returns; the call
\* returns no error once every candidate has a completion, and a candidate
\* with a number is returned, with that number, exactly when it is above 0.3.
C2_UnparseableScoresZero ==
    /\ pc = "history" /\ sk.cands # << >> /\ Len(sk.scores) = Len(sk.cands)
           => ~searchFailed
    /\ SearchReturned =>
           \A i \in 1..Len(sk.cands) :
               IF NotANumber(sk.scores[i])
               THEN ParseRelevance(sk.scores[i]) = Fin(0) /\ ~Returned(i)
               ELSE LET f == ParseFloat(TrimSpace(sk.scores[i])).f IN
                    /\ Returned(i) <=> Above(f, 30)
                    /\ \A r \in 1..Len(retrieved) :
                           retrieved[r].cand = i =>
                               /\ retrieved[r].Relevance = f
                               /\ retrieved[r].Content = sk.cands[i].Content

\* of two candidates the one with an unparseable completion (a word, or a
\* numeral out of float64's range) is dropped and the other is returned
C2_Witness ==
    /\ SearchReturned
    /\ Len(sk.cands) = 2
    /\ sk.scores[1] \in {<< "high" >>, << "1e999" >>}
    /\ Len(retrieved) = 1
    /\ retrieved[1].cand = 2

Actions == {<< "reply" >>, << "store" >>, << "search" >>, << "new_conversation" >>}
Returns(content, convID) ==
    /\ outcome = "ok"
    /\ response.Role = "assistant"
    /\ response.Content = content
    /\ response.ConvID = convID
    /\ response.ID > 0

\* C3: a completion that json.Unmarshal rejects is interpreted as action
\* reply with the raw completion as content; the assistant message that is
\* then persisted and returned carries that text after the clean-up (white
\* space trimmed, one surrounding pair of double quotes removed), and the
\* turn ends otherwise only where SaveMessage fails or the clean-up panics.
C3_FallbackReplyIsCleanedCompletion ==
    parseFailed =>
        /\ pc = "cleanup" =>
               llmResponse.Action = << "reply" >> /\ llmResponse.Content = completion
        /\ pc = "done" =>
               /\ llmResponse.Action = << "reply" >>
               /\ outcome \in {"ok", "save message failed", "panic"}
               /\ outcome = "panic" <=> CleanUpPanics(completion)
               /\ outcome = "ok" =>
                      /\ Returns(CleanUp(completion), userMsg.ConvID)
                      /\ calls = << Call("SaveMessage", TRUE, userMsg.ConvID,
                                         CleanUp(completion)) >>

\* a quoted word after a space is rejected by json.Unmarshal, and the
\* message returned is the word
C3_Witness ==
    /\ parseFailed
    /\ pc = "done"
    /\ Returns(<< "hello" >>, userMsg.ConvID)
    /\ completion = << SP, DQ, "hello", DQ >>

\* C3 as the specification words it: the content of the assistant message
\* persisted and returned after a rejected completion equals the raw
\* completion unchanged.
C3_RawCompletionUnchanged ==
    parseFailed /\ pc = "done" /\ outcome = "ok" =>
        /\ llmResponse.Action = << "reply" >>
        /\ response.Content = completion
        /\ calls[1].content = completion

\* C4: a completion that parses and whose action is none of reply, store,
\* search, new_conversation (a missing or empty one too) makes
\* ProcessMessage return the unknown-action error with nothing written.
C4_UnknownActionIsAnError ==
    /\ pc = "done"
    /\ completion # NoText
    /\ ~parseFailed
    /\ UnmarshalLLMResponse(completion).val.Action \notin Actions
    => outcome = "unknown action" /\ calls = << >>

StoreCalled == calls # << >> /\ calls[1].op = "SaveToKnowledgeBase"

\* C5: in the store case the turn goes on whether or not SaveToKnowledgeBase
\* failed: the next write is SaveMessage of the interpreted content on the
\* inbound conversation, and when that succeeds the message is returned
\* without error; no outcome reports the failed knowledge write.
C5_StoreFailureIsNotFatal ==
    StoreCalled =>
        /\ pc \in {"fallthrough", "done"}
        /\ kbFailed = ~calls[1].ok
        /\ pc = "done" =>
               /\ Len(calls) = 2
               /\ calls[2] = Call("SaveMessage", calls[2].ok, userMsg.ConvID,
                                  llmResponse.Content)
               /\ outcome = IF calls[2].ok THEN "ok" ELSE "save message failed"
               /\ calls[2].ok => Returns(llmResponse.Content, userMsg.ConvID)

\* revision 2's SaveToKnowledgeBase has failed and the reply is returned
C5_Witness ==
    /\ StoreCalled
    /\ ~calls[1].ok
    /\ rev = 2
    /\ pc = "done"
    /\ Returns(<< "noted" >>, userMsg.ConvID)

\* the lines of a text: the runs between its line feeds
RECURSIVE SplitLines(_)
SplitLines(text) ==
    IF text = << >> THEN << >>
    ELSE IF \E i \in 1..Len(text) : text[i] = NL
    THEN LET n == CHOOSE i \in 1..Len(text) :
                      text[i] = NL /\ \A j \in 1..(i - 1) : text[j] # NL
         IN << SubSeq(text, 1, n - 1) >> \o SplitLines(SubSeq(text, n + 1, Len(text)))
    ELSE << text >>

IsInformation(line) == line # << >> /\ line[1] = InformationLabel
IsContext(line) == line # << >> /\ line[1] = ContextLabel
Min(a, b) == IF a < b THEN a ELSE b

\* the body has n Information lines in the order of user_input and
\* min(n, m) Context lines, the i-th directly after the i-th Information line
WellFormedEntry(body, info) ==
    LET lines == SplitLines(body)
        n == Len(info.UserInput)
        m == Len(info.BotResponse)
        infoAt == {p \in 1..Len(lines) : IsInformation(lines[p])}
        contextAt == {p \in 1..Len(lines) : IsContext(lines[p])}
        Nth(k) == CHOOSE p \in infoAt : Cardinality({q \in infoAt : q <= p}) = k
    IN /\ Cardinality(infoAt) = n
       /\ Cardinality(contextAt) = Min(n, m)
       /\ \A k \in 1..n :
              /\ lines[Nth(k)] = << InformationLabel >> \o info.UserInput[k]
              /\ IF k <= m
                 THEN /\ Nth(k) + 1 \in contextAt
                      /\ lines[Nth(k) + 1] = << ContextLabel >> \o info.BotResponse[k]
                 ELSE Nth(k) + 1 \notin contextAt

KnowledgeCalls == {i \in 1..Len(calls) : calls[i].op = "SaveToKnowledgeBase"}

\* C6: the store case hands exactly one knowledge entry to the store, with
\* the inbound message's conversation identifier; its body has one
\* Information line for each of the n user_input texts, in order, and
\* min(n, m) Context lines, the i-th directly after the i-th Information
\* line, so the entries from the m-th on have none.  The call that succeeds
\* adds that one row to knowledge, the call that fails adds none.
C6_OneWellFormedEntry ==
    /\ [](/\ Cardinality(KnowledgeCalls) <= 1
          /\ pc \in {"fallthrough", "done"} /\ llmResponse.Action = << "store" >>
                 => StoreCalled
          /\ StoreCalled =>
                 /\ llmResponse.Action = << "store" >>
                 /\ calls[1].conv = userMsg.ConvID
                 /\ WellFormedEntry(calls[1].content, llmResponse.StoreInfo))
    /\ [][~StoreCalled /\ StoreCalled' =>
              IF calls'[1].ok
              THEN /\ Len(knowledge') = Len(knowledge) + 1
                   /\ knowledge'[Len(knowledge')].content = calls'[1].content
                   /\ knowledge'[Len(knowledge')].conversation_id = userMsg.ConvID
                   /\ \A k \in 1..Len(knowledge) : knowledge'[k] = knowledge[k]
              ELSE knowledge' = knowledge]_vars

\* two user inputs and one bot response: the entry is written and its
\* second Information line has no Context line
C6_Witness ==
    /\ pc = "fallthrough"
    /\ StoreCalled
    /\ calls[1].ok
    /\ Len(llmResponse.StoreInfo.UserInput) = 2
    /\ Len(llmResponse.StoreInfo.BotResponse) = 1
    /\ knowledge # << >>
    /\ knowledge[Len(knowledge)].content = calls[1].content
    /\ SplitLines(calls[1].content) =
           << << EntryHeader >>, << InformationLabel, "cats" >>,
              << ContextLabel, "purr" >>, << InformationLabel, "dogs" >> >>

\* C7 as the specification words it: a successful new_conversation turn
\* creates a conversation with the title given, persists the reply against
\* the new conversation's identifier and returns a message whose
\* conversation identifier differs from the inbound message's, whatever the
\* store holds and whatever identifier the request named.
C7_ReplyMovesToAnotherConversation ==
    pc = "done" /\ outcome = "ok" /\ llmResponse.Action = << "new_conversation" >> =>
        /\ calls = << Call("CreateConversation", TRUE, calls[1].conv, llmResponse.NewTitle),
                      Call("SaveMessage", TRUE, calls[1].conv, llmResponse.Content) >>
        /\ Returns(llmResponse.Content, calls[1].conv)
        /\ response.ConvID # userMsg.ConvID

\* the prompt's knowledge section holds no line
NoKnowledgeLine(text) ==
    /\ Len(text) >= 9
    /\ SubSeq(text, 4, 9) = << KnowledgeHeader, NL, NL, NL, HistoryHeader, NL >>
    /\ \A i \in 1..Len(text) : text[i] # "- "

\* C8: when the store's search or a scoring call fails, ProcessMessage goes
\* on to the history with an empty knowledge list, the prompt it builds has
\* no knowledge line, and no outcome of the turn reports the failure.
C8_RetrievalFailureIsNotFatal ==
    searchFailed =>
        /\ pc \in {"history", "complete", "cleanup", "dispatch", "fallthrough",
                    "new_conversation", "done"}
        /\ pc = "history" => retrieved = << >>
        /\ pc = "complete" => NoKnowledgeLine(prompt)
        /\ pc = "done" =>
               outcome \in {"ok", "get history failed", "completion failed", "panic",
                            "save message failed", "unknown action",
                            "create conversation failed"}

\* a scoring call has failed after a candidate was scored above 0.3, and
\* ProcessMessage holds no knowledge
C8_Witness ==
    /\ searchFailed
    /\ pc = "history"
    /\ sk.results # << >>
    /\ Len(sk.scores) < Len(sk.cands)
    /\ retrieved = << >>

\* C9: the reply case and the search case do the same thing, which depends
\* on the store and the interpreted content only: one message with role
\* assistant, the inbound conversation identifier and the interpreted
\* content is appended and returned, or SaveMessage fails and nothing is
\* written; no knowledge entry and no conversation is written either way.
C9_ReplyAndSearchAlike ==
    [][pc = "dispatch" /\ llmResponse.Action \in {<< "reply" >>, << "search" >>}
           /\ pc' # "dispatch" =>
          /\ pc' = "done"
          /\ UNCHANGED << conversations, convSeq, knowledge, knowSeq, knowledge_fts >>
          /\ \/ /\ Len(messages') = Len(messages) + 1
                /\ \A k \in 1..Len(messages) : messages'[k] = messages[k]
                /\ LET row == messages'[Len(messages')] IN
                   /\ row.id = msgSeq + 1
                   /\ row.role = "assistant"
                   /\ row.conversation_id = userMsg.ConvID
                   /\ row.content = llmResponse.Content
                   /\ response' = Saved(row)
                /\ outcome' = "ok"
                /\ calls' = << Call("SaveMessage", TRUE, userMsg.ConvID,
                                    llmResponse.Content) >>
             \/ /\ messages' = messages
                /\ response' = NoMessage
                /\ outcome' = "save message failed"
                /\ calls' = << Call("SaveMessage", FALSE, userMsg.ConvID,
                                    llmResponse.Content) >>]_vars

\* a search action has been answered like a reply
C9_Witness ==
    /\ pc = "done"
    /\ llmResponse.Action = << "search" >>
    /\ Returns(llmResponse.Content, userMsg.ConvID)
    /\ calls = << Call("SaveMessage", TRUE, userMsg.ConvID, llmResponse.Content) >>
    /\ \E k \in 1..Len(messages) : Saved(messages[k]) = response

\* the content field of the completion, as json.Unmarshal decoded it
OuterContent == UnmarshalLLMResponse(completion).val.Content

\* the content looks like JSON, parses as an object, and the object's content
\* member is a string
Wrapped(content) ==
    /\ HasPrefix(content, LBRACE) \/ HasPrefix(content, LBRACK)
    /\ ParseJSON(content).ok
    /\ ParseJSON(content).val.k = "object"
    /\ LET m == ParseJSON(content).val.m IN
       \E i \in 1..Len(m) :
           /\ m[i].key = << "content" >>
           /\ m[i].val.k = "string"
           /\ \A j \in (i + 1)..Len(m) : m[j].key # << "content" >>
Inner(content) ==
    LET m == ParseJSON(content).val.m
        i == CHOOSE i \in 1..Len(m) :
                 m[i].key = << "content" >> /\ \A j \in (i + 1)..Len(m) : m[j].key # << "content" >>
    IN m[i].val.s

\* C10: after a completion of the declared shape, the interpreted content
\* (before the clean-up) is the inner content string when the content field
\* starts with a brace or bracket and parses as a JSON object with a string
\* member content, and is the content field as it came otherwise.
C10_DoubleEncodedContentUnwrapped ==
    pc = "cleanup" /\ ~parseFailed =>
        llmResponse.Content =
            IF Wrapped(OuterContent) THEN Inner(OuterContent) ELSE OuterContent

\* a content that is itself a JSON object with a content string has been
\* replaced by that string
C10_Witness ==
    /\ pc = "cleanup"
    /\ ~parseFailed
    /\ HasPrefix(OuterContent, LBRACE)
    /\ llmResponse.Content = << "hi" >>

\* the clean-up as the specification gives it: the text trimmed, and one
\* layer of quoting removed when the trimmed text is wrapped in a pair of
\* double quotes
Unquoted(content) ==
    LET t == TrimSpace(content) IN
    IF Len(t) >= 2 /\ t[1] = DQ /\ t[Len(t)] = DQ THEN SubSeq(t, 2, Len(t) - 1) ELSE t

\* C11 as the specification words it: once a completion is parsed and
\* unwrapped, the clean-up leaves the content trimmed of surrounding white
\* space, with exactly one layer of quoting removed when the trimmed value
\* is wrapped in a pair of quotes, and as trimmed when it is not.
C11_ContentTrimmedAndUnquoted ==
    completion # NoText /\ pc # "cleanup" =>
        /\ outcome # "panic"
        /\ llmResponse.Content = Unquoted(ParseCompletion(completion).Content)

\* apart from the panic the clean-up is the one the specification gives
C11_CleanedUnlessPanic ==
    completion # NoText /\ pc # "cleanup" /\ outcome # "panic" =>
        llmResponse.Content = Unquoted(ParseCompletion(completion).Content)

\* a float64 in the closed interval [0.0, 1.0]
InUnitInterval(f) == f.k = "fin" /\ f.v >= 0 /\ f.v <= 100

\* C12 as the specification words it: every relevance the scoring of a
\* candidate produces, and the Relevance of every result that
\* Service.SearchKnowledge returns, lies in [0.0, 1.0], whatever text the
\* provider answered.
C12_RelevanceInUnitInterval ==
    /\ \A i \in 1..Len(sk.scores) : InUnitInterval(ParseRelevance(sk.scores[i]))
    /\ \A i \in 1..Len(sk.results) : InUnitInterval(sk.results[i].Relevance)
    /\ \A i \in 1..Len(retrieved) : InUnitInterval(retrieved[i].Relevance)

\* the conversations a step deletes
Deleted == DOMAIN conversations \ DOMAIN conversations'

\* C13 as the specification words it: the deletion of a conversation keeps
\* every knowledge entry the conversation owned, content unchanged, and only
\* detaches it (the entry's conversation identifier becomes null, written 0).
C13_DeleteDetachesKnowledge ==
    [][\A id \in Deleted : \A k \in Rows(knowledge) :
           k.conversation_id = id =>
               \E kept \in Rows(knowledge') :
                   /\ kept.id = k.id
                   /\ kept.content = k.content
                   /\ kept.conversation_id = 0]_vars

\* the errors Service.ProcessMessage returns
FatalErrors ==
    {"get history failed", "completion failed", "save message failed",
     "create conversation failed", "unknown action"}

\* C14 as the specification words it: when Service.ProcessMessage returns an
\* error, none of the store writes it called has taken effect: no
\* conversation, knowledge entry or message of that call is in the store.
C14_NoPartialWrites ==
    pc = "done" /\ outcome \in FatalErrors => \A i \in 1..Len(calls) : ~calls[i].ok

\* nothing of the turn after its inbound message: no completion received,
\* no store write called, no message to return
NothingFurther == completion = NoText /\ calls = << >> /\ response = NoMessage

\* C15: a fatal failure ends the turn at its step.  When the save of the
\* inbound message fails there is no retrieval, no completion and no write;
\* when the history fetch or the main completion call fails there is no
\* completion to act on and no assistant message is written; when the save
\* of the reply or the creation of the conversation fails no message is
\* returned.  A turn that has ended takes no further step.
C15_FatalFailureAborts ==
    /\ [](/\ outcome # "none" => pc = "done"
          /\ outcome = "save user message failed" =>
                 /\ userMsg.ID = 0
                 /\ sk = NoSearch /\ ~searchFailed /\ prompt = << >>
                 /\ NothingFurther
          /\ outcome \in {"get history failed", "completion failed"} => NothingFurther
          /\ outcome \in {"save message failed", "create conversation failed"} =>
                 /\ response = NoMessage
                 /\ ~calls[Len(calls)].ok
                 /\ \A i \in 1..Len(calls) : calls[i].op = "SaveMessage" => ~calls[i].ok)
    /\ [][pc = "done" => UNCHANGED << turnVars, msgSeq, knowSeq >>]_vars

\* the history fetch has failed after the inbound message was saved
C15_Witness ==
    /\ pc = "done"
    /\ outcome = "get history failed"
    /\ userMsg.ID > 0
    /\ NothingFurther

\* the step is a call of Database.DeleteConversation(id) with that result
DeleteCalled(id, ok) == calls' = << Call("DeleteConversation", ok, id, NoText) >>

\* C16: Database.DeleteConversation(id) is all or nothing.  When it succeeds
\* conversation id is gone and so is every message of it, and the
\* conversations and messages of every other identifier are as they were;
\* when a statement or the commit fails, the conversations, the messages,
\* the knowledge entries and the index are exactly as before the call.
C16_DeleteAllOrNothing ==
    [][\A id \in InboundIDs :
          /\ DeleteCalled(id, TRUE) =>
                 /\ id \notin DOMAIN conversations'
                 /\ \A m \in Rows(messages') : m.conversation_id # id
                 /\ DOMAIN conversations' = DOMAIN conversations \ {id}
                 /\ \A c \in DOMAIN conversations' : conversations'[c] = conversations[c]
                 /\ messages' = SelectSeq(messages, LAMBDA m : m.conversation_id # id)
          /\ DeleteCalled(id, FALSE) =>
                 UNCHANGED << conversations, messages, knowledge, knowledge_fts >>]_vars

\* a DeleteConversation has failed, and the conversation, its messages and
\* its knowledge entries are there
C16_Witness ==
    /\ calls = << Call("DeleteConversation", FALSE, 1, NoText) >>
    /\ 1 \in DOMAIN conversations
    /\ \E m \in Rows(messages) : m.conversation_id = 1
    /\ \E k \in Rows(knowledge) : k.conversation_id = 1
    /\ \E m \in Rows(messages) : m.conversation_id = 2

\* the index has exactly one entry for each knowledge row and none for a
\* row that does not exist
IndexConsistent ==
    /\ \A k \in Rows(knowledge) :
           Cardinality({f \in knowledge_fts : f.docid = k.id}) = 1
    /\ \A f \in knowledge_fts : \E k \in Rows(knowledge) : k.id = f.docid

\* C17 as the specification words it: from a consistent index, a
\* SaveToKnowledgeBase on a healthy database succeeds and leaves exactly one
\* index entry for the new row; SaveToKnowledgeBase and DeleteConversation
\* keep the index consistent; a SaveToKnowledgeBase that fails leaves the
\* knowledge table and the index as they were.
C17_IndexFollowsKnowledge ==
    [][IndexConsistent /\ calls' # << >> =>
          /\ calls'[1].op = "SaveToKnowledgeBase" =>
                 /\ outcome' # "io error" =>
                        /\ outcome' = "ok"
                        /\ Len(knowledge') = Len(knowledge) + 1
                        /\ Cardinality({f \in knowledge_fts' :
                               f.docid = knowledge'[Len(knowledge')].id}) = 1
                 /\ outcome' # "ok" => UNCHANGED << knowledge, knowledge_fts >>
          /\ calls'[1].op \in {"SaveToKnowledgeBase", "DeleteConversation"} =>
                 IndexConsistent']_vars

\* C18: the main completion call is bound to a deadline 30 seconds after
\* Service.ProcessMessage began: the deadline of its context is at 30 s, and
\* a turn that fails in the completion call has failed by then, however long
\* retrieval and the history fetch took; while the candidates are searched
\* and scored no deadline is set.
C18_DeadlineFromStart ==
    /\ deadline # << >> => deadline[1] = Timeout
    /\ pc = "done" /\ outcome = "completion failed" => elapsed <= Timeout
    /\ pc \in {"search", "score"} => deadline = << >>

\* the scoring calls run under the context ProcessMessage was given, and the
\* completion call ends 30 s after WithTimeout at the latest
C18_DeadlineFromCompletionCall ==
    /\ pc \in {"search", "score", "history"} => deadline = << >>
    /\ pc \in {"complete", "cleanup"} => elapsed <= deadline[1]
    /\ pc = "done" /\ outcome = "completion failed" => elapsed <= deadline[1]

\* C19: the clean-up of the content never fails at run time, whatever the
\* content is, and the turn goes on from it to the dispatch on the action.
C19_CleanUpAlwaysReachesDispatch ==
    [][pc = "cleanup" /\ pc' # "cleanup" => pc' = "dispatch" /\ outcome' # "panic"]_vars

\* the contents of up to three characters among space, quote and a letter
ShortContents == UNION {[1..n -> {SP, DQ, "a"}] : n \in 0..3}

\* the clean-up fails for the contents that trim to one quote and no other:
\* not for the empty content, nor for one of white space only
C19_PanicsOnOneQuoteOnly ==
    /\ \A content \in ShortContents : CleanUpPanics(content) <=> TrimSpace(content) = << DQ >>
    /\ pc = "done" /\ outcome = "panic" => TrimSpace(llmResponse.Content) = << DQ >>

\* C20: whatever the interleaving of a turn with CreateConversation and
\* DeleteConversation, every row of messages and every row of knowledge
\* refers to a conversation that exists.
C20_RowsReferToConversations ==
    /\ \A m \in Rows(messages) : m.conversation_id \in DOMAIN conversations
    /\ \A k \in Rows(knowledge) : k.conversation_id \in DOMAIN conversations

\* the same of the conversations that were created (AUTOINCREMENT hands out
\* the identifiers up to convSeq and never one of them again): no row is
\* left of, or written to, a conversation that has been deleted
C20_NoRowsOfDeletedConversations ==
    \A m \in Rows(messages) :
        m.conversation_id <= convSeq => m.conversation_id \in DOMAIN conversations

\* and of the turn in flight: when the inbound message was saved and its
\* conversation deleted before the reply is saved, the reply is not saved in
\* the deleted conversation
C20_NoReplyToConversationDeletedInFlight ==
    /\ pc = "done" /\ outcome = "ok" /\ userMsg.ID > 0
    /\ userMsg.ConvID <= convSeq /\ userMsg.ConvID \notin DOMAIN conversations
    /\ \A m \in Rows(messages) : m.id # userMsg.ID
    => \A m \in Rows(messages) : m.id = response.ID => m.conversation_id # userMsg.ConvID

\* the step is a Database.SearchKnowledge(query) that returned its rows
Searched(query) == calls' = << Call("SearchKnowledge", TRUE, 0, query) >>

\* the row is among the rows the search returned
Found(k) ==
    \E i \in 1..Len(sk'.cands) :
        /\ sk'.cands[i].Content = k.content
        /\ sk'.cands[i].ConversationID = k.conversation_id
        /\ sk'.cands[i].CreatedAt = k.created_at

\* the knowledge entries SaveToKnowledgeBase has saved since the database
\* file was first opened by this run
SavedByRun == {k \in Rows(knowledge) : k.created_at = CurrentTimestamp}

\* C21: knowledge stays searchable across restarts.  Every entry that
\* SaveToKnowledgeBase has saved is returned by a Database.SearchKnowledge
\* whose query matches its content, whether or not db.New has opened the
\* database again since the entry was saved.
C21_SearchableAcrossRestarts ==
    [][\A query \in UserContents :
          Searched(query) =>
              \A k \in SavedByRun : Match(k.content, query) => Found(k)]_vars

\* the same holds where the index is synchronised by the search itself
C21_SearchableInFirstRevision ==
    [][\A query \in UserContents :
          rev = 1 /\ Searched(query) =>
              \A k \in Rows(knowledge) : Match(k.content, query) => Found(k)]_vars

\* and where it is not, as long as db.New has not run since the entry was
\* saved: an entry that is in the index is found
C21_SearchableWhileIndexed ==
    [][\A query \in UserContents :
          Searched(query) =>
              \A k \in Rows(knowledge) :
                  /\ Match(k.content, query)
                  /\ \E f \in knowledge_fts : f.docid = k.id
                  => Found(k)]_vars

\* the score of candidate i: the number its completion holds, 0.0 when the
\* completion is not a number
Score(i) ==
    IF NotANumber(sk.scores[i]) THEN Fin(0) ELSE ParseFloat(TrimSpace(sk.scores[i])).f

\* the candidates that score above 0.3
Qualifying == {i \in 1..Len(sk.cands) : Above(Score(i), 30)}

\* the places of candidate i in the list that was returned
PlacesOf(i) == {r \in 1..Len(retrieved) : retrieved[r].cand = i}

\* C22: when no call fails, the list Service.SearchKnowledge returns is a
\* permutation of the candidates that score above 0.3: each of them is in
\* the list once, with its own content, score and creation time, the list
\* holds nothing else, and it is empty when no candidate qualifies.
C22_PermutationOfQualifying ==
    SearchReturned =>
        /\ Len(retrieved) = Cardinality(Qualifying)
        /\ \A r \in 1..Len(retrieved) : retrieved[r].cand \in Qualifying
        /\ \A i \in Qualifying :
               /\ Cardinality(PlacesOf(i)) = 1
               /\ \A r \in PlacesOf(i) :
                      /\ retrieved[r].Content = sk.cands[i].Content
                      /\ retrieved[r].Relevance = Score(i)
                      /\ retrieved[r].CreatedAt = sk.cands[i].CreatedAt
        /\ Qualifying = {} => retrieved = << >>

\* two candidates of different content both qualify, and the sort has moved
\* the second before the first
C22_Witness ==
    /\ SearchReturned
    /\ Qualifying = {1, 2}
    /\ sk.cands[1].Content # sk.cands[2].Content
    /\ PlacesOf(2) = {1}
    /\ PlacesOf(1) = {2}

\* the place of a header in the prompt, and the two sections of the prompt
\* that follow the knowledge
Position(p, header) == CHOOSE i \in 1..Len(p) : p[i] = header
HistorySection(p) ==
    SubSeq(p, Position(p, HistoryHeader) + 1, Position(p, CurrentHeader) - 1)
CurrentSection(p) == SubSeq(p, Position(p, CurrentHeader), Len(p))

\* the number of "role: content" lines in a section
LineCount(section) == Cardinality({i \in 1..Len(section) : section[i] = ": "})

\* the step in which ProcessMessage reads the history and builds the prompt
PromptBuilt == pc = "history" /\ pc' = "complete"

\* the messages of the conversation that were persisted before the inbound one
Earlier == {m \in HistoryRows(userMsg.ConvID) : m.id < userMsg.ID}

\* C23: in the prompt of a turn started through HandleMessage the inbound
\* message is the current message, after the history, and appears nowhere
\* else: the history section holds only messages of the conversation that
\* were persisted before the inbound one, and at most 10 of them.
C23_InboundMessageOnce ==
    [][PromptBuilt =>
          /\ CurrentSection(prompt') =
                 << CurrentHeader, NL, userMsg.Role, ": " >> \o userMsg.Content
                 \o << NL, NL, ResponseCue >>
          /\ LineCount(HistorySection(prompt')) <= Cardinality(Earlier)
          /\ LineCount(HistorySection(prompt')) <= HistoryLimit]_vars

\* what the history section does hold: the newest 10 messages of the
\* conversation, the inbound message among them while it is in the table
C23_HistoryHoldsInboundMessage ==
    [][PromptBuilt =>
          /\ CurrentSection(prompt') =
                 << CurrentHeader, NL, userMsg.Role, ": " >> \o userMsg.Content
                 \o << NL, NL, ResponseCue >>
          /\ LineCount(HistorySection(prompt')) =
                 Min(Cardinality(HistoryRows(userMsg.ConvID)), HistoryLimit)
          /\ (\E m \in Rows(messages) : m.id = userMsg.ID) =>
                 LineCount(HistorySection(prompt')) = Min(Cardinality(Earlier) + 1, HistoryLimit)]_vars
====
